---- MODULE Spec2Model ----
(***************************************************************************)
(* Model of fjsp_gurobi_fattahi.py: the FJSP instance parser, the MILP     *)
(* formulation builder (variables and linear constraints, kept as data),   *)
(* the per-instance solve and the batch loop of main with its two report   *)
(* serialisations.                                                         *)
(*                                                                         *)
(* Conventions: Python lists are sequences; Python indices stay 0-based    *)
(* as values (ops[o] is inst.ops[o + 1] here); a dict is a function on its *)
(* key set; an optional value is a sequence of length 0 or 1; a raised     *)
(* exception is a record field exc # "".                                   *)
(***************************************************************************)
EXTENDS Integers, Sequences, FiniteSets, TLC

VARIABLES
    tokens,     \* parse: the token list read from the file (line 61)
    parsed,     \* parse: <<>> before the call, <<result>> after it
    inst,       \* build: the Instance handed to build_model
    gp,         \* build: TRUE iff the gurobipy import succeeded (lines 32-37)
    model,      \* build: <<>> before the call, <<result of build_model>> after
    sol,        \* solve: <<>> or <<a variable assignment the solver returns>>
    sched,      \* schedule: machine and start time of the operations placed so far
    files,      \* main: the ordered list of instance paths (line 194)
    pos,        \* main: number of paths the for loop has processed
    rows,       \* main: the rows list (line 200)
    trace,      \* main: per processed path, what each stage did (history)
    csv,        \* main: the lines written to the CSV file
    md,         \* main: the lines written to the Markdown file
    pc          \* main: "loop", "csv", "md", "done"

vars == <<tokens, parsed, inst, gp, model, sol, sched, files, pos, rows, trace, csv, md, pc>>

\* ------------------------------------------------------------------ bounds

MaxTokens == 9
MaxBatchTokens == 7
MaxFiles == 2
MaxJobs == 2
MaxOps == 3
SolveMaxOps == 2
SchedMaxOps == 3
MaxStart == 4

\* ------------------------------------------------------------- small helpers

Range(f) == {f[x] : x \in DOMAIN f}

RECURSIVE SumSeq(_)
SumSeq(q) == IF q = <<>> THEN 0 ELSE Head(q) + SumSeq(Tail(q))

RECURSIVE SetToSeq(_)
\* The elements of a finite set of integers in ascending order.
SetToSeq(S) ==
    IF S = {} THEN <<>>
    ELSE LET lo == CHOOSE x \in S : \A y \in S : x <= y
         IN  <<lo>> \o SetToSeq(S \ {lo})

SeqsUpTo(S, n) == UNION {[1..k -> S] : k \in 0..n}

\* ------------------------------------------------------------------ tokens

\* What f.read().strip().split() can hand to int(): decimal literals and one
\* token that is no integer literal.
TokenAlphabet == {"0", "1", "2", "x"}

IsIntLiteral(tok) == tok \in {"0", "1", "2", "3"}

IntValue(tok) ==
    CASE tok = "0" -> 0
      [] tok = "1" -> 1
      [] tok = "2" -> 2
      [] tok = "3" -> 3

\* int(next(it)) with the iterator at 1-based position p: next raises
\* StopIteration on an exhausted iterator, then int raises ValueError.
NextInt(toks, p) ==
    IF p > Len(toks) THEN [exc |-> "StopIteration", msg |-> "", val |-> 0]
    ELSE IF ~IsIntLiteral(toks[p])
         THEN [exc |-> "ValueError",
               msg |-> "invalid literal for int() with base 10", val |-> 0]
         ELSE [exc |-> "", msg |-> "", val |-> IntValue(toks[p])]

\* alts[m] = p on a dict.
DictSet(d, k, v) == [x \in (DOMAIN d) \cup {k} |-> IF x = k THEN v ELSE d[x]]

\* os.path.basename of a path given as its list of components.
basename(path) == IF path = <<>> THEN "" ELSE path[Len(path)]

\* -------------------------------------------------------------------- parser

RECURSIVE ParseAlts(_, _, _, _)
\* for _ in range(k): m = int(next(it)); p = int(next(it)); alts[m] = p
ParseAlts(toks, p, k, alts) ==
    IF k <= 0 THEN [exc |-> "", msg |-> "", p |-> p, alts |-> alts]
    ELSE LET m == NextInt(toks, p) IN
         IF m.exc # "" THEN [exc |-> m.exc, msg |-> m.msg, p |-> p, alts |-> alts]
         ELSE LET d == NextInt(toks, p + 1) IN
              IF d.exc # "" THEN [exc |-> d.exc, msg |-> d.msg, p |-> p, alts |-> alts]
              ELSE ParseAlts(toks, p + 2, k - 1, DictSet(alts, m.val, d.val))

\* A variant of NextIdx that numbers an operation by its position in its job.
NextIdxInJob(ops, h) == h

\* idx = len(ops): the global index of the operation about to be appended.
NextIdx(ops, h) == Len(ops)

RECURSIVE ParseOps(_, _, _, _, _, _, _)
\* for h in range(n_ops): the body of lines 70-77
ParseOps(toks, p, j, h, n_ops, ops, job_list) ==
    IF h >= n_ops
    THEN [exc |-> "", msg |-> "", p |-> p, ops |-> ops, job_list |-> job_list]
    ELSE LET k == NextInt(toks, p) IN
         IF k.exc # ""
         THEN [exc |-> k.exc, msg |-> k.msg, p |-> p, ops |-> ops, job_list |-> job_list]
         ELSE LET a == ParseAlts(toks, p + 1, k.val, <<>>) IN
              IF a.exc # ""
              THEN [exc |-> a.exc, msg |-> a.msg, p |-> p, ops |-> ops,
                    job_list |-> job_list]
              ELSE LET idx == NextIdx(ops, h) IN
                   ParseOps(toks, a.p, j, h + 1, n_ops,
                            Append(ops, [job |-> j, op |-> h, alts |-> a.alts]),
                            Append(job_list, idx))

RECURSIVE ParseJobs(_, _, _, _, _, _)
\* for j in range(n_jobs): the body of lines 67-78
ParseJobs(toks, p, j, n_jobs, ops, job_ops_idx) ==
    IF j >= n_jobs
    THEN [exc |-> "", msg |-> "", ops |-> ops, job_ops_idx |-> job_ops_idx]
    ELSE LET n == NextInt(toks, p) IN
         IF n.exc # ""
         THEN [exc |-> n.exc, msg |-> n.msg, ops |-> ops, job_ops_idx |-> job_ops_idx]
         ELSE LET r == ParseOps(toks, p + 1, j, 0, n.val, ops, <<>>) IN
              IF r.exc # ""
              THEN [exc |-> r.exc, msg |-> r.msg, ops |-> ops, job_ops_idx |-> job_ops_idx]
              ELSE ParseJobs(toks, r.p, j + 1, n_jobs, r.ops,
                             Append(job_ops_idx, r.job_list))

\* parse_fjsp_instance(path), the file's content given as its token list.
\* The result carries the exception raised (exc, msg) or the Instance.
parse_fjsp_instance(path, toks) ==
    LET nj == NextInt(toks, 1) IN
    IF nj.exc # "" THEN [exc |-> nj.exc, msg |-> nj.msg, inst |-> <<>>]
    ELSE LET nm == NextInt(toks, 2) IN
         IF nm.exc # "" THEN [exc |-> nm.exc, msg |-> nm.msg, inst |-> <<>>]
         ELSE LET r == ParseJobs(toks, 3, 0, nj.val, <<>>, <<>>) IN
              IF r.exc # "" THEN [exc |-> r.exc, msg |-> r.msg, inst |-> <<>>]
              ELSE [exc |-> "", msg |-> "",
                    inst |-> << [name |-> basename(path), n_jobs |-> nj.val,
                                 n_machs |-> nm.val, ops |-> r.ops,
                                 job_ops_idx |-> r.job_ops_idx] >>]

\* ------------------------------------------------------- linear expressions

\* A gurobipy variable, identified by its name y_i_o, s_o, x_i_a_b or Cmax.
YVar(i, o) == [t |-> "y", i |-> i, a |-> o, b |-> -1]
SVar(o) == [t |-> "s", i |-> -1, a |-> o, b |-> -1]
XVar(i, a, b) == [t |-> "x", i |-> i, a |-> a, b |-> b]
CmaxVar == [t |-> "Cmax", i |-> -1, a |-> -1, b |-> -1]

\* gurobipy's LinExpr arithmetic: a constant plus a list of coef * var terms.
LinConst(c) == [const |-> c, terms |-> <<>>]
LinVar(v) == [const |-> 0, terms |-> <<[coef |-> 1, var |-> v]>>]
LinScale(k, e) ==
    [const |-> k * e.const,
     terms |-> [n \in 1..Len(e.terms) |->
                  [coef |-> k * e.terms[n].coef, var |-> e.terms[n].var]]]
LinAdd(e, f) == [const |-> e.const + f.const, terms |-> e.terms \o f.terms]
LinSub(e, f) == LinAdd(e, LinScale(-1, f))

RECURSIVE quicksum(_)
quicksum(es) == IF es = <<>> THEN LinConst(0) ELSE LinAdd(Head(es), quicksum(Tail(es)))

\* The value of a linear expression under an assignment val of the variables.
Eval(e, val) ==
    e.const + SumSeq([n \in 1..Len(e.terms) |-> e.terms[n].coef * val[e.terms[n].var]])

\* Whether the assignment satisfies the constraint lhs sense rhs.
Sat(c, val) ==
    IF c.sense = "==" THEN Eval(c.lhs, val) = Eval(c.rhs, val)
    ELSE Eval(c.lhs, val) >= Eval(c.rhs, val)

RECURSIVE Flatten(_)
Flatten(qs) == IF qs = <<>> THEN <<>> ELSE Head(qs) \o Flatten(Tail(qs))

\* ------------------------------------------------------------- build_model

NOps(I) == Len(I.ops)

\* inst.ops[o] for a 0-based operation index.
OpAt(I, o) == I.ops[o + 1]

\* for i in inst.ops[o].alts: the dict's keys (taken in ascending order).
AltKeys(I, o) == SetToSeq(DOMAIN OpAt(I, o).alts)

MaxOfSet(S) == CHOOSE x \in S : \A y \in S : y <= x

\* A variant of BigM that takes the largest worst-case duration, not the sum.
BigMOfMax(I) == MaxOfSet({MaxOfSet(Range(I.ops[n].alts)) : n \in 1..NOps(I)} \cup {0}) + 1

\* sum_max = sum(max(op.alts.values()) for op in inst.ops); M = sum_max + 1
BigM(I) == SumSeq([n \in 1..NOps(I) |-> MaxOfSet(Range(I.ops[n].alts))]) + 1

\* A variant of YVars that creates one variable per machine of the instance
\* for every operation, eligible or not.
YVarsDense(I) ==
    Flatten([n \in 1..NOps(I) |->
               [i \in 1..I.n_machs |-> [var |-> YVar(i - 1, n - 1), vtype |-> "B"]]])

\* y[i, o] = m.addVar(vtype=GRB.BINARY) for o in O, for i in ops[o].alts
YVars(I) ==
    Flatten([n \in 1..NOps(I) |->
               LET ks == AltKeys(I, n - 1) IN
               [k \in 1..Len(ks) |-> [var |-> YVar(ks[k], n - 1), vtype |-> "B"]]])

\* s = {o: m.addVar(lb=0.0, vtype=GRB.CONTINUOUS) for o in O}
SVars(I) == [n \in 1..NOps(I) |-> [var |-> SVar(n - 1), vtype |-> "C"]]

\* p(o) = quicksum(inst.ops[o].alts[i] * y[i, o] for i in inst.ops[o].alts)
ProcTime(I, o) ==
    LET ks == AltKeys(I, o) IN
    quicksum([k \in 1..Len(ks) |->
                LinScale(OpAt(I, o).alts[ks[k]], LinVar(YVar(ks[k], o)))])

\* m.addConstr(quicksum(y[i, o] for i in inst.ops[o].alts) == 1, name=assign_o)
AssignConstrs(I) ==
    [n \in 1..NOps(I) |->
       LET ks == AltKeys(I, n - 1) IN
       [kind |-> "assign", i |-> -1, a |-> n - 1, b |-> -1,
        lhs |-> quicksum([k \in 1..Len(ks) |-> LinVar(YVar(ks[k], n - 1))]),
        sense |-> "==", rhs |-> LinConst(1)]]

\* zip(job_list[:-1], job_list[1:])
ZipConsecutive(l) ==
    [k \in 1..(IF Len(l) = 0 THEN 0 ELSE Len(l) - 1) |-> <<l[k], l[k + 1]>>]

\* A variant of JobConstrs that links the makespan only for jobs that have a
\* precedence pair.
JobConstrsNoSingle(I, jj) ==
    LET job_list == I.job_ops_idx[jj]
        pairs == ZipConsecutive(job_list)
        last == job_list[Len(job_list)]
    IN  [k \in 1..Len(pairs) |->
           [kind |-> "prec", i |-> jj - 1, a |-> pairs[k][1], b |-> pairs[k][2],
            lhs |-> LinVar(SVar(pairs[k][2])), sense |-> ">=",
            rhs |-> LinAdd(LinVar(SVar(pairs[k][1])), ProcTime(I, pairs[k][1]))]]
        \o (IF Len(pairs) = 0 THEN <<>>
            ELSE << [kind |-> "mk", i |-> jj - 1, a |-> last, b |-> -1,
                     lhs |-> LinVar(CmaxVar), sense |-> ">=",
                     rhs |-> LinAdd(LinVar(SVar(last)), ProcTime(I, last))] >>)

\* The body of the precedence loop for job jj - 1 (lines 115-120): one
\* constraint s[b] >= s[a] + p_a per consecutive pair, then Cmax >= s[last] + p_last.
JobConstrs(I, jj) ==
    LET job_list == I.job_ops_idx[jj]
        pairs == ZipConsecutive(job_list)
        last == job_list[Len(job_list)]
    IN  [k \in 1..Len(pairs) |->
           [kind |-> "prec", i |-> jj - 1, a |-> pairs[k][1], b |-> pairs[k][2],
            lhs |-> LinVar(SVar(pairs[k][2])), sense |-> ">=",
            rhs |-> LinAdd(LinVar(SVar(pairs[k][1])), ProcTime(I, pairs[k][1]))]]
        \o << [kind |-> "mk", i |-> jj - 1, a |-> last, b |-> -1,
               lhs |-> LinVar(CmaxVar), sense |-> ">=",
               rhs |-> LinAdd(LinVar(SVar(last)), ProcTime(I, last))] >>

PrecConstrs(I) == Flatten([jj \in 1..Len(I.job_ops_idx) |-> JobConstrs(I, jj)])

\* ops_by_machine[i]: the operations eligible on machine i, in index order.
OpsByMachine(I, i) ==
    SetToSeq({o \in 0..(NOps(I) - 1) : i \in DOMAIN OpAt(I, o).alts})

\* A variant of MachinePairs that pairs every position with every other one,
\* in both directions.
MachinePairsBoth(I, i) ==
    LET ops_i == OpsByMachine(I, i) IN
    Flatten([idx_a \in 1..Len(ops_i) |->
               Flatten([idx_b \in 1..Len(ops_i) |->
                          IF idx_a = idx_b THEN <<>>
                          ELSE << <<ops_i[idx_a], ops_i[idx_b]>> >>])])

\* for idx_a in range(len(ops_i)): for idx_b in range(idx_a + 1, len(ops_i))
MachinePairs(I, i) ==
    LET ops_i == OpsByMachine(I, i) IN
    Flatten([idx_a \in 1..Len(ops_i) |->
               [d \in 1..(Len(ops_i) - idx_a) |-> <<ops_i[idx_a], ops_i[idx_a + d]>>]])

\* Every (i, a, b) the disjunctive loop visits, in order (lines 129-134).
DisjKeys(I) ==
    Flatten([m \in 1..I.n_machs |->
               LET ps == MachinePairs(I, m - 1) IN
               [k \in 1..Len(ps) |-> <<m - 1, ps[k][1], ps[k][2]>>]])

\* x[i, a, b] = m.addVar(vtype=GRB.BINARY)
XVars(I) ==
    LET ks == DisjKeys(I) IN
    [k \in 1..Len(ks) |-> [var |-> XVar(ks[k][1], ks[k][2], ks[k][3]), vtype |-> "B"]]

\* s[b] >= s[a] + p_a - M * (1 - x[i,a,b] + 2 - ya - yb)
Disj1(I, M, i, a, b) ==
    [kind |-> "disj1", i |-> i, a |-> a, b |-> b,
     lhs |-> LinVar(SVar(b)), sense |-> ">=",
     rhs |-> LinSub(LinAdd(LinVar(SVar(a)), ProcTime(I, a)),
                    LinScale(M, LinSub(LinSub(LinAdd(LinSub(LinConst(1),
                                                            LinVar(XVar(i, a, b))),
                                                     LinConst(2)),
                                              LinVar(YVar(i, a))),
                                       LinVar(YVar(i, b)))))]

\* A variant of Disj2 whose bracket is that of the first constraint.
Disj2SameBranch(I, M, i, a, b) ==
    [kind |-> "disj2", i |-> i, a |-> a, b |-> b,
     lhs |-> LinVar(SVar(a)), sense |-> ">=",
     rhs |-> LinSub(LinAdd(LinVar(SVar(b)), ProcTime(I, b)),
                    LinScale(M, LinSub(LinSub(LinAdd(LinSub(LinConst(1),
                                                            LinVar(XVar(i, a, b))),
                                                     LinConst(2)),
                                              LinVar(YVar(i, a))),
                                       LinVar(YVar(i, b)))))]

\* s[a] >= s[b] + p_b - M * (x[i,a,b] + 2 - ya - yb)
Disj2(I, M, i, a, b) ==
    [kind |-> "disj2", i |-> i, a |-> a, b |-> b,
     lhs |-> LinVar(SVar(a)), sense |-> ">=",
     rhs |-> LinSub(LinAdd(LinVar(SVar(b)), ProcTime(I, b)),
                    LinScale(M, LinSub(LinSub(LinAdd(LinVar(XVar(i, a, b)), LinConst(2)),
                                              LinVar(YVar(i, a))),
                                       LinVar(YVar(i, b)))))]

DisjConstrs(I, M) ==
    LET ks == DisjKeys(I) IN
    Flatten([k \in 1..Len(ks) |->
               << Disj1(I, M, ks[k][1], ks[k][2], ks[k][3]),
                  Disj2(I, M, ks[k][1], ks[k][2], ks[k][3]) >>])

\* The key ops_by_machine[i] is first missing for (line 126); str(KeyError(i))
\* is the key's repr.
FirstBadMachine(I) ==
    LET bad(n) == {i \in DOMAIN I.ops[n].alts : i \notin 0..(I.n_machs - 1)}
        n0 == CHOOSE n \in 1..NOps(I) :
                 bad(n) # {} /\ \A k \in 1..(n - 1) : bad(k) = {}
    IN  CHOOSE i \in bad(n0) : \A k \in bad(n0) : i <= k

Raised(exc, msg) == [exc |-> exc, msg |-> msg, vars |-> <<>>, constrs |-> <<>>, M |-> 0]

\* A variant of build_model that tolerates an operation without machines, a
\* job without operations and a machine outside range(n_machs).
build_model_lenient(I, gpAvail) ==
    IF ~gpAvail THEN Raised("RuntimeError", "gurobipy no esta instalado en este entorno.")
    ELSE [exc |-> "", msg |-> "", vars |-> <<>>, constrs |-> <<>>, M |-> 1]

\* build_model(inst): the exception it raises, or the variables and
\* constraints of the model it returns, in the order they are added.
build_model(I, gpAvail) ==
    IF ~gpAvail
    THEN Raised("RuntimeError", "gurobipy no esta instalado en este entorno.")
    ELSE IF \E n \in 1..NOps(I) : DOMAIN I.ops[n].alts = {}
    THEN Raised("ValueError", "max() arg is an empty sequence")
    ELSE IF \E jj \in 1..Len(I.job_ops_idx) : I.job_ops_idx[jj] = <<>>
    THEN Raised("IndexError", "list index out of range")
    ELSE IF \E n \in 1..NOps(I) : \E i \in DOMAIN I.ops[n].alts : i \notin 0..(I.n_machs - 1)
    THEN Raised("KeyError", ToString(FirstBadMachine(I)))
    ELSE LET M == BigM(I) IN
         [exc |-> "", msg |-> "",
          vars |-> YVars(I) \o SVars(I) \o <<[var |-> CmaxVar, vtype |-> "C"]>> \o XVars(I),
          constrs |-> AssignConstrs(I) \o PrecConstrs(I) \o DisjConstrs(I, M),
          M |-> M]

\* ------------------------------------------------------ instances to build

\* The machine identifiers and durations a file gives, and the machine counts
\* it declares: with n_machs = 1, machine 1 is outside range(n_machs).
MachIds == {0, 1}
MachCounts == {1, 2}
Durations == {1, 2}

\* The dicts an operation's alts can be: any set of machines, each with a duration.
AltsChoices == UNION {[S -> Durations] : S \in SUBSET MachIds}

\* The operation counts of the jobs: at most MaxJobs jobs, MaxOps operations in all.
Shapes(maxOps) ==
    {sh \in SeqsUpTo(0..maxOps, MaxJobs) : SumSeq(sh) <= maxOps}

RECURSIVE JobOf(_, _)
\* The 1-based job, and the 0-based position in it, of the n-th operation of a shape.
JobOf(sh, n) ==
    IF n <= Head(sh) THEN <<1, n - 1>>
    ELSE LET r == JobOf(Tail(sh), n - Head(sh)) IN <<r[1] + 1, r[2]>>

RECURSIVE Offsets(_, _)
Offsets(sh, base) ==
    IF sh = <<>> THEN <<>>
    ELSE <<[h \in 1..Head(sh) |-> base + h - 1]>> \o Offsets(Tail(sh), base + Head(sh))

\* The Instance parse_fjsp_instance returns for jobs of the given operation
\* counts whose operations carry the given dicts.
MkInstance(nm, sh, alts) ==
    [name |-> "inst.fjs", n_jobs |-> Len(sh), n_machs |-> nm,
     ops |-> [n \in 1..Len(alts) |->
                [job |-> JobOf(sh, n)[1] - 1, op |-> JobOf(sh, n)[2], alts |-> alts[n]]],
     job_ops_idx |-> Offsets(sh, 0)]

\* I is an Instance of at most MaxJobs jobs and maxOps operations.
IsInstance(I, maxOps, altsSet) ==
    \E sh \in Shapes(maxOps) :
      \E nm \in MachCounts :
        \E alts \in [1..SumSeq(sh) -> altsSet] : I = MkInstance(nm, sh, alts)

\* ------------------------------------------------------ parser specification

ParsePath == <<"fattahi", "inst.fjs">>

NoSchedule == [asg |-> <<>>, s |-> <<>>]

NoInstance == [name |-> "", n_jobs |-> 0, n_machs |-> 0, ops |-> <<>>, job_ops_idx |-> <<>>]

InitParse ==
    /\ \E k \in 0..MaxTokens : tokens \in [1..k -> TokenAlphabet]
    /\ parsed = <<>>
    /\ inst = NoInstance /\ gp = TRUE /\ model = <<>> /\ sol = <<>> /\ sched = NoSchedule
    /\ files = <<>> /\ pos = 0 /\ rows = <<>> /\ trace = <<>>
    /\ csv = <<>> /\ md = <<>> /\ pc = "parse"

Parse ==
    /\ pc = "parse"
    /\ parsed = <<>>
    /\ parsed' = <<parse_fjsp_instance(ParsePath, tokens)>>
    /\ UNCHANGED <<tokens, inst, gp, model, sol, sched, files, pos, rows, trace, csv, md, pc>>

NextParse == Parse

SpecParse == InitParse /\ [][NextParse]_vars

\* ------------------------------------------------------------ parser claims

\* parse_fjsp_instance has returned an Instance.
Parsed == parsed # <<>> /\ parsed[1].exc = ""

ParsedInst == parsed[1].inst[1]

\* C9: in every Instance parse_fjsp_instance returns, the job lists
\* concatenated in job order are exactly 0, 1, ..., N-1 with N = len(ops), so
\* every operation index lies in exactly one job, and the operation at
\* job_ops_idx[j][h] has job = j and op = h.
C9_JobListsPartitionOps ==
    Parsed =>
      LET I == ParsedInst
          flat == Flatten(I.job_ops_idx)
      IN  /\ flat = [n \in 1..Len(I.ops) |-> n - 1]
          /\ \A o \in 0..(Len(I.ops) - 1) :
               Cardinality({<<jj, hh>> \in (1..Len(I.job_ops_idx)) \X (1..Len(I.ops)) :
                               hh <= Len(I.job_ops_idx[jj]) /\ I.job_ops_idx[jj][hh] = o}) = 1
          /\ \A jj \in 1..Len(I.job_ops_idx) :
               \A hh \in 1..Len(I.job_ops_idx[jj]) :
                 LET idx == I.job_ops_idx[jj][hh] IN
                 /\ idx \in 0..(Len(I.ops) - 1)
                 /\ I.ops[idx + 1].job = jj - 1
                 /\ I.ops[idx + 1].op = hh - 1

\* An Instance of two jobs was returned, the second job's operation lying
\* after the first job's in ops, with an operation that has a machine.
C9_Witness ==
    /\ Parsed
    /\ Len(ParsedInst.job_ops_idx) = 2
    /\ Len(ParsedInst.job_ops_idx[1]) >= 1
    /\ Len(ParsedInst.job_ops_idx[2]) >= 1
    /\ \E n \in 1..Len(ParsedInst.ops) : DOMAIN ParsedInst.ops[n].alts # {}

\* C4: the parser fails, and returns no Instance, on a stream in which some
\* operation declares k = 0 eligible machines (as on a truncated stream or a
\* token that is no integer): an Instance it returns has a machine for every
\* operation, and a failure carries no Instance.
C4_ParserRejectsZeroMachines ==
    parsed # <<>> =>
      /\ parsed[1].exc # "" => parsed[1].inst = <<>>
      /\ parsed[1].exc = "" =>
           \A n \in 1..Len(ParsedInst.ops) : DOMAIN ParsedInst.ops[n].alts # {}

\* ------------------------------------------------------- build specification

InitBuild ==
    /\ IsInstance(inst, MaxOps, AltsChoices)
    /\ gp = TRUE
    /\ model = <<>>
    /\ tokens = <<>> /\ parsed = <<>> /\ sol = <<>> /\ sched = NoSchedule
    /\ files = <<>> /\ pos = 0 /\ rows = <<>> /\ trace = <<>>
    /\ csv = <<>> /\ md = <<>> /\ pc = "build"

Build ==
    /\ pc = "build"
    /\ model = <<>>
    /\ model' = <<build_model(inst, gp)>>
    /\ UNCHANGED <<tokens, parsed, inst, gp, sol, sched, files, pos, rows, trace, csv, md, pc>>

NextBuild == Build

SpecBuild == InitBuild /\ [][NextBuild]_vars

\* build_model has returned a model (it did not raise).
Built == model # <<>> /\ model[1].exc = ""

ConstrsOf(kind) == {n \in 1..Len(model[1].constrs) : model[1].constrs[n].kind = kind}
VarsOf(t) == {n \in 1..Len(model[1].vars) : model[1].vars[n].var.t = t}

\* The job list and the operation count H_j of the jj-th job of inst.
JobList(jj) == inst.job_ops_idx[jj]

\* The operations of inst eligible on machine i.
EligibleOn(i) == {o \in 0..(NOps(inst) - 1) : i \in DOMAIN OpAt(inst, o).alts}

\* The expression is exactly s[o] + p(o), p(o) summing duration * y over o's
\* eligible machines.
IsStartPlusProc(e, o) ==
    /\ e.const = 0
    /\ Len(e.terms) = 1 + Cardinality(DOMAIN OpAt(inst, o).alts)
    /\ Range(e.terms) =
          {[coef |-> 1, var |-> SVar(o)]}
          \cup {[coef |-> OpAt(inst, o).alts[i], var |-> YVar(i, o)] :
                  i \in DOMAIN OpAt(inst, o).alts}

IsSingleVar(e, v) == e.const = 0 /\ e.terms = <<[coef |-> 1, var |-> v]>>

\* C6: for every job j of an instance build_model accepts, the model holds
\* exactly H_j - 1 precedence constraints, one per consecutive pair (a, b) of
\* the job's route and of the form s[b] >= s[a] + p(a), and exactly one
\* makespan-linking constraint Cmax >= s[last] + p(last); a single-operation
\* job has no precedence constraint and still has its makespan constraint.
C6_PrecedenceAndMakespanCounts ==
    Built =>
      \A jj \in 1..Len(inst.job_ops_idx) :
        LET H == Len(JobList(jj))
            cs == model[1].constrs
            precs == {n \in ConstrsOf("prec") : cs[n].i = jj - 1}
            mks == {n \in ConstrsOf("mk") : cs[n].i = jj - 1}
        IN  /\ Cardinality(precs) = H - 1
            /\ \A h \in 1..(H - 1) :
                 Cardinality({n \in precs :
                    /\ cs[n].a = JobList(jj)[h] /\ cs[n].b = JobList(jj)[h + 1]
                    /\ cs[n].sense = ">="
                    /\ IsSingleVar(cs[n].lhs, SVar(JobList(jj)[h + 1]))
                    /\ IsStartPlusProc(cs[n].rhs, JobList(jj)[h])}) = 1
            /\ Cardinality(mks) = 1
            /\ \A n \in mks :
                 /\ cs[n].a = JobList(jj)[H]
                 /\ cs[n].sense = ">="
                 /\ IsSingleVar(cs[n].lhs, CmaxVar)
                 /\ IsStartPlusProc(cs[n].rhs, JobList(jj)[H])

\* A model was built for an instance with a single-operation job and a job
\* of at least two operations.
C6_Witness ==
    /\ Built
    /\ \E jj \in 1..Len(inst.job_ops_idx) : Len(JobList(jj)) = 1
    /\ \E jj \in 1..Len(inst.job_ops_idx) : Len(JobList(jj)) >= 2
    /\ ConstrsOf("prec") # {}

\* C7: for every machine i the model holds exactly C(n_i, 2) ordering
\* variables x[i,a,b], n_i the number of operations eligible on i: one per
\* unordered pair of distinct operations eligible on i, keyed a < b, none
\* created twice, each with exactly one disj1 and one disj2 constraint.
C7_OrderingVariableCount ==
    Built =>
      LET vs == model[1].vars
          cs == model[1].constrs
      IN
      /\ \A n \in VarsOf("x") : vs[n].var.i \in 0..(inst.n_machs - 1)
      /\ \A i \in 0..(inst.n_machs - 1) :
           LET n_i == Cardinality(EligibleOn(i))
               xs == {n \in VarsOf("x") : vs[n].var.i = i}
           IN  /\ 2 * Cardinality(xs) = n_i * (n_i - 1)
               /\ \A n \in xs : /\ vs[n].var.a < vs[n].var.b
                                /\ vs[n].var.a \in EligibleOn(i)
                                /\ vs[n].var.b \in EligibleOn(i)
                                /\ vs[n].vtype = "B"
               /\ \A n, k \in xs : n # k => vs[n].var # vs[k].var
               /\ \A a, b \in EligibleOn(i) :
                    a < b => \E n \in xs : vs[n].var = XVar(i, a, b)
               /\ \A n \in xs :
                    \A kind \in {"disj1", "disj2"} :
                      Cardinality({c \in ConstrsOf(kind) :
                         /\ cs[c].i = i /\ cs[c].a = vs[n].var.a
                         /\ cs[c].b = vs[n].var.b}) = 1
      /\ Cardinality(ConstrsOf("disj1")) = Cardinality(VarsOf("x"))
      /\ Cardinality(ConstrsOf("disj2")) = Cardinality(VarsOf("x"))

\* A model was built for an instance with three operations eligible on one
\* machine (three ordering variables there) and fewer on another.
C7_Witness ==
    /\ Built
    /\ \E i \in 0..(inst.n_machs - 1) : Cardinality(EligibleOn(i)) = 3
    /\ \E i \in 0..(inst.n_machs - 1) : Cardinality(EligibleOn(i)) = 1
    /\ Cardinality(VarsOf("x")) = 3

\* C8: the model holds exactly one unique-assignment constraint per operation
\* (N in all), each equating to 1 the sum of y[i,o] over exactly that
\* operation's eligible machines, and the number of assignment variables is
\* the sum over the operations of their eligible-machine counts.
C8_AssignmentCounts ==
    Built =>
      LET vs == model[1].vars
          cs == model[1].constrs
      IN
      /\ Cardinality(ConstrsOf("assign")) = NOps(inst)
      /\ \A o \in 0..(NOps(inst) - 1) :
           LET mine == {n \in ConstrsOf("assign") : cs[n].a = o}
               elig == DOMAIN OpAt(inst, o).alts
           IN  /\ Cardinality(mine) = 1
               /\ \A n \in mine :
                    /\ cs[n].sense = "=="
                    /\ cs[n].rhs = [const |-> 1, terms |-> <<>>]
                    /\ cs[n].lhs.const = 0
                    /\ Len(cs[n].lhs.terms) = Cardinality(elig)
                    /\ Range(cs[n].lhs.terms) =
                          {[coef |-> 1, var |-> YVar(i, o)] : i \in elig}
               /\ Cardinality({n \in VarsOf("y") : vs[n].var.a = o}) = Cardinality(elig)
               /\ \A i \in elig : \E n \in VarsOf("y") : vs[n].var = YVar(i, o)
      /\ Cardinality(VarsOf("y")) =
            SumSeq([n \in 1..NOps(inst) |-> Cardinality(DOMAIN inst.ops[n].alts)])

\* A model was built for an instance with an operation of one eligible
\* machine and an operation of two.
C8_Witness ==
    /\ Built
    /\ \E n \in 1..NOps(inst) : Cardinality(DOMAIN inst.ops[n].alts) = 1
    /\ \E n \in 1..NOps(inst) : Cardinality(DOMAIN inst.ops[n].alts) = 2
    /\ Cardinality(VarsOf("y")) >= 3

\* ------------------------------------------------------- solve specification

\* The variables of the built model of each kind.
ModelVars(t) == {model[1].vars[n].var : n \in VarsOf(t)}

ConstrsAmong(kinds) ==
    {model[1].constrs[n] : n \in {k \in 1..Len(model[1].constrs) :
                                     model[1].constrs[k].kind \in kinds}}

InitSolve ==
    /\ IsInstance(inst, SolveMaxOps, AltsChoices)
    /\ gp = TRUE
    /\ model = <<>>
    /\ tokens = <<>> /\ parsed = <<>> /\ sol = <<>> /\ sched = NoSchedule
    /\ files = <<>> /\ pos = 0 /\ rows = <<>> /\ trace = <<>>
    /\ csv = <<>> /\ md = <<>> /\ pc = "build"

\* model.optimize() ending with an incumbent: any assignment of the binaries
\* to 0 or 1 and of the continuous variables (lower bound 0; integer values
\* up to the bounds) that satisfies every constraint of the model.
Optimize ==
    /\ Built
    /\ sol = <<>>
    /\ LET assign == ConstrsAmong({"assign"})
           route == ConstrsAmong({"prec", "mk"})
           disj == ConstrsAmong({"disj1", "disj2"})
           ys == ModelVars("y")
           ss == ModelVars("s")
           xs == ModelVars("x")
       IN
       \E yv \in [ys -> {0, 1}] :
         /\ \A c \in assign : Sat(c, yv)
         /\ \E sv \in [ss -> 0..MaxStart] :
              \E cv \in [{CmaxVar} -> 0..(MaxStart + MaxOfSet(Durations))] :
                /\ \A c \in route : Sat(c, yv @@ sv @@ cv)
                /\ \E xv \in [xs -> {0, 1}] :
                     LET val == yv @@ sv @@ cv @@ xv IN
                     /\ \A c \in disj : Sat(c, val)
                     /\ sol' = <<val>>
    /\ UNCHANGED <<tokens, parsed, inst, gp, model, sched, files, pos, rows, trace, csv, md, pc>>

NextSolve == Build \/ Optimize

SpecSolve == InitSolve /\ [][NextSolve]_vars

\* The disj1 / disj2 constraint of the model for (i, a, b).
DisjOf(kind, i, a, b) ==
    CHOOSE c \in ConstrsAmong({kind}) : c.i = i /\ c.a = a /\ c.b = b

\* C2: in every assignment satisfying the model's constraints, for every
\* machine i and operations a < b eligible on i with y[i,a] = y[i,b] = 1, the
\* two disjunctive constraints are the standard pair s[b] >= s[a] + p(a) -
\* M(1 - x) and s[a] >= s[b] + p(b) - M x: x = 1 forces s[b] >= s[a] + p(a),
\* x = 0 forces s[a] >= s[b] + p(b), and the two operations do not overlap.
C2_SameMachineNoOverlap ==
    sol # <<>> =>
      LET val == sol[1]
          M == model[1].M
      IN
      \A xvar \in ModelVars("x") :
        LET i == xvar.i
            a == xvar.a
            b == xvar.b
            pa == OpAt(inst, a).alts[i]
            pb == OpAt(inst, b).alts[i]
        IN  (val[YVar(i, a)] = 1 /\ val[YVar(i, b)] = 1) =>
              /\ a < b
              /\ Eval(DisjOf("disj1", i, a, b).rhs, val)
                    = val[SVar(a)] + pa - M * (1 - val[xvar])
              /\ Eval(DisjOf("disj2", i, a, b).rhs, val)
                    = val[SVar(b)] + pb - M * val[xvar]
              /\ val[xvar] = 1 => val[SVar(b)] >= val[SVar(a)] + pa
              /\ val[xvar] = 0 => val[SVar(a)] >= val[SVar(b)] + pb
              /\ \/ val[SVar(a)] + pa <= val[SVar(b)]
                 \/ val[SVar(b)] + pb <= val[SVar(a)]

\* The solver returned an assignment that puts two operations on one machine,
\* the later-indexed one first (x = 0), although the earlier one had another
\* eligible machine.
C2_Witness ==
    /\ sol # <<>>
    /\ \E xvar \in ModelVars("x") :
         /\ sol[1][YVar(xvar.i, xvar.a)] = 1
         /\ sol[1][YVar(xvar.i, xvar.b)] = 1
         /\ sol[1][xvar] = 0
         /\ Cardinality(DOMAIN OpAt(inst, xvar.a).alts) = 2

\* ---------------------------------------------------- schedule specification
\* The schedules of the Big-M property: every operation on a minimum-duration
\* eligible machine, the operations placed one at a time in any order that
\* respects the routes, each starting as soon as its job predecessor and its
\* machine are free.

InitSched ==
    /\ IsInstance(inst, SchedMaxOps, AltsChoices)
    /\ gp = TRUE
    /\ model = <<>>
    /\ sched = NoSchedule
    /\ tokens = <<>> /\ parsed = <<>> /\ sol = <<>>
    /\ files = <<>> /\ pos = 0 /\ rows = <<>> /\ trace = <<>>
    /\ csv = <<>> /\ md = <<>> /\ pc = "build"

Placed == DOMAIN sched.s

\* The machines on which operation o is shortest.
MinDurMachines(o) ==
    LET alts == OpAt(inst, o).alts IN
    {i \in DOMAIN alts : \A k \in DOMAIN alts : alts[i] <= alts[k]}

EndOf(o) == sched.s[o] + OpAt(inst, o).alts[sched.asg[o]]

\* The operation before o in its job's route, if any.
JobPred(o) == IF OpAt(inst, o).op = 0 THEN {} ELSE {o - 1}

Dispatch ==
    /\ Built
    /\ \E o \in (0..(NOps(inst) - 1)) \ Placed :
         /\ JobPred(o) \subseteq Placed
         /\ \E i \in MinDurMachines(o) :
              LET ready == {EndOf(q) : q \in JobPred(o)}
                  busy == {EndOf(q) : q \in {r \in Placed : sched.asg[r] = i}}
                  start == MaxOfSet(ready \cup busy \cup {0})
              IN  sched' = [asg |-> DictSet(sched.asg, o, i),
                            s |-> DictSet(sched.s, o, start)]
    /\ UNCHANGED <<tokens, parsed, inst, gp, model, sol, files, pos, rows, trace, csv, md, pc>>

NextSched == Build \/ Dispatch

SpecSched == InitSched /\ [][NextSched]_vars

Scheduled == Built /\ Placed = 0..(NOps(inst) - 1)

\* The schedule as an assignment of the model's variables, every ordering
\* variable set to xval.
SchedVal(xval) ==
    [v \in {model[1].vars[n].var : n \in 1..Len(model[1].vars)} |->
       CASE v.t = "y" -> IF sched.asg[v.a] = v.i THEN 1 ELSE 0
         [] v.t = "s" -> sched.s[v.a]
         [] v.t = "x" -> xval
         [] OTHER -> MaxOfSet({EndOf(o) : o \in Placed} \cup {0})]

\* C3: with M = 1 + the sum over the operations of their largest duration, a
\* schedule as above satisfies every relaxed disjunctive constraint: for a
\* pair (a, b) not both on machine i both constraints hold for x = 0 and for
\* x = 1; for a pair both on i the constraint of the direction x does not
\* select holds, and some value of x satisfies both, so the schedule is not
\* cut off.
C3_BigMKeepsSchedule ==
    Scheduled =>
      /\ model[1].M = 1 + SumSeq([n \in 1..NOps(inst) |->
                                    MaxOfSet(Range(inst.ops[n].alts))])
      /\ \A xvar \in ModelVars("x") :
           LET i == xvar.i
               a == xvar.a
               b == xvar.b
               d1 == DisjOf("disj1", i, a, b)
               d2 == DisjOf("disj2", i, a, b)
           IN  IF sched.asg[a] = i /\ sched.asg[b] = i
               THEN /\ Sat(d2, SchedVal(1))
                    /\ Sat(d1, SchedVal(0))
                    /\ \E xval \in {0, 1} : Sat(d1, SchedVal(xval)) /\ Sat(d2, SchedVal(xval))
               ELSE \A xval \in {0, 1} : Sat(d1, SchedVal(xval)) /\ Sat(d2, SchedVal(xval))

\* A complete schedule with two operations sharing a machine, the second
\* starting after time 0, and the instance offering a pair of eligible
\* operations that the schedule does not put together on that machine.
C3_Witness ==
    /\ Scheduled
    /\ \E xvar \in ModelVars("x") :
         /\ sched.asg[xvar.a] = xvar.i /\ sched.asg[xvar.b] = xvar.i
         /\ sched.s[xvar.a] + sched.s[xvar.b] > 0
    /\ \E xvar \in ModelVars("x") :
         sched.asg[xvar.a] # xvar.i \/ sched.asg[xvar.b] # xvar.i

\* ------------------------------------------------ solve_instance and main

\* A Python float of integral value, or nan.
Float(v) == [nan |-> FALSE, v |-> v]
NaN == [nan |-> TRUE, v |-> 0]

\* str(x) of a float, as csv.DictWriter writes it.
FloatStr(x) == IF x.nan THEN "nan" ELSE ToString(x.v) \o ".0"

\* fmt(x) of main for a float (lines 218-221): '-' for nan, else f"{x:.4g}",
\* which prints an integral value below 10000 without a fraction.
fmt(x) == IF x.nan THEN "-" ELSE ToString(x.v)

\* What model.optimize() and the attribute reads after it can give: an
\* incumbent, no incumbent at the time limit (reading MIPGap then fails, so
\* hasattr is False), or a GurobiError raised by optimize.
SolveOutcomes ==
    { [exc |-> "", msg |-> "", SolCount |-> 1, ObjVal |-> 4, hasMIPGap |-> TRUE,
       MIPGap |-> 0, Runtime |-> 1, Status |-> 2],
      [exc |-> "", msg |-> "", SolCount |-> 0, ObjVal |-> 0, hasMIPGap |-> FALSE,
       MIPGap |-> 0, Runtime |-> 3600, Status |-> 9],
      [exc |-> "GurobiError", msg |-> "Model too large for size-limited license",
       SolCount |-> 0, ObjVal |-> 0, hasMIPGap |-> FALSE, MIPGap |-> 0,
       Runtime |-> 0, Status |-> 1] }

NoRow == [instance |-> ""]

\* The Instance has an operation without machines / a job without operations
\* / an eligible machine outside range(n_machs).
HasEmptyAlts(I) == \E n \in 1..Len(I.ops) : DOMAIN I.ops[n].alts = {}
HasEmptyJob(I) == \E jj \in 1..Len(I.job_ops_idx) : I.job_ops_idx[jj] = <<>>
HasBadMachine(I) ==
    \E n \in 1..Len(I.ops) : \E i \in DOMAIN I.ops[n].alts : ~(0 <= i /\ i < I.n_machs)

\* What solve_instance hands back when an exception leaves it.
Failed(exc, msg, stages) == [exc |-> exc, msg |-> msg, row |-> NoRow, stages |-> stages]

InstShape(I) ==
    [emptyAlts |-> HasEmptyAlts(I), emptyJob |-> HasEmptyJob(I),
     badMachine |-> HasBadMachine(I)]

\* Lines 165-181: optimize the model m built for I and make the row.
SolveBuilt(path, I, m, out) ==
    IF m.exc # ""
    THEN Failed(m.exc, m.msg, [parse |-> "", build |-> m.exc, solve |-> "-"] @@ InstShape(I))
    ELSE IF out.exc # ""
    THEN Failed(out.exc, out.msg,
                [parse |-> "", build |-> "", solve |-> out.exc] @@ InstShape(I))
    ELSE [exc |-> "", msg |-> "",
          row |-> [instance |-> basename(path),
                   jobs |-> I.n_jobs,
                   machines |-> I.n_machs,
                   ops |-> Len(I.ops),
                   vars |-> Len(m.vars),
                   constrs |-> Len(m.constrs),
                   objective |-> IF out.SolCount > 0 THEN Float(out.ObjVal) ELSE NaN,
                   gap |-> IF out.hasMIPGap THEN Float(out.MIPGap) ELSE NaN,
                   time_s |-> Float(out.Runtime),
                   status |-> out.Status],
          stages |-> [parse |-> "", build |-> "", solve |-> ""] @@ InstShape(I)]

\* Lines 163-164: build the model of the parse result pr, unless parsing raised.
SolveParsed(path, pr, gpAvail, out) ==
    IF pr.exc # ""
    THEN Failed(pr.exc, pr.msg,
                [parse |-> pr.exc, build |-> "-", solve |-> "-", emptyAlts |-> FALSE,
                 emptyJob |-> FALSE, badMachine |-> FALSE])
    ELSE SolveBuilt(path, pr.inst[1], build_model(pr.inst[1], gpAvail), out)

\* solve_instance(path): the exception that leaves it, or the row it returns;
\* stages records how far it got and what the parsed Instance looked like.
solve_instance(path, toks, gpAvail, out) ==
    SolveParsed(path, parse_fjsp_instance(path, toks), gpAvail, out)

\* A variant of TryRow that drops a failed instance instead of recording it.
TryRowSkip(path, res) == IF res.exc # "" THEN <<>> ELSE <<res.row>>

\* The try/except of the batch loop (lines 203-207): the rows appended for
\* one path, the row solve_instance returned or the error row.
TryRow(path, res) ==
    IF res.exc # ""
    THEN << [instance |-> basename(path), error |-> res.msg] >>
    ELSE << res.row >>

fieldnames ==
    <<"instance", "jobs", "machines", "ops", "vars", "constrs", "objective", "gap",
      "time_s", "status">>

\* str(r.get(k, '')) as csv.DictWriter writes the cell.
CsvCell(r, k) ==
    IF k \notin DOMAIN r THEN ""
    ELSE IF k = "instance" THEN r[k]
    ELSE IF k \in {"objective", "gap", "time_s"} THEN FloatStr(r[k])
    ELSE ToString(r[k])

\* w.writerow({k: r.get(k, '') for k in fieldnames}): the cells in field order.
CsvLine(r) == [n \in 1..Len(fieldnames) |-> CsvCell(r, fieldnames[n])]

\* The cells of the Markdown line written for a row (lines 227-230).
MdLine(r) ==
    IF "error" \in DOMAIN r
    THEN <<r.instance, "-", "-", "-", "-", "-", "ERROR: " \o r.error, "-", "-">>
    ELSE <<r.instance, ToString(r.jobs), ToString(r.machines), ToString(r.ops),
           ToString(r.vars), ToString(r.constrs), fmt(r.objective), fmt(r.gap),
           fmt(r.time_s)>>

MdHeader ==
    << <<"Instancia", "|J|", "|M|", "|Ops|", "Vars", "Restr.", "Obj (Cmax)", "GAP", "t (s)">>,
       <<":--", "--:", "--:", "--:", "--:", "--:", "--:", "--:", "--:">> >>

\* ------------------------------------------------------- batch specification

\* The instance files find_fattahi_files can return; two share a basename.
Paths == { <<"fattahi", "a.fjs">>, <<"fattahi", "b.fjs">>, <<"other", "a.fjs">> }

\* What the instance files can hold.
BatchStreams == SeqsUpTo(TokenAlphabet, MaxBatchTokens)

InitBatch ==
    /\ files \in {f \in SeqsUpTo(Paths, MaxFiles) :
                    \A n, k \in 1..Len(f) : n # k => f[n] # f[k]}
    /\ gp \in BOOLEAN
    /\ pos = 0 /\ rows = <<>> /\ trace = <<>>
    /\ csv = <<>> /\ md = <<>> /\ pc = "loop"
    /\ tokens = <<>> /\ parsed = <<>> /\ inst = NoInstance /\ model = <<>>
    /\ sol = <<>> /\ sched = NoSchedule

\* Every way solve_instance(p) can end, over the contents the file may hold
\* and the outcomes of the solver.
SolveResults ==
    [p \in Paths, g \in BOOLEAN |->
       {solve_instance(p, toks, g, out) : toks \in BatchStreams, out \in SolveOutcomes}]

\* One iteration of for p in files (lines 201-207).
LoopIter ==
    /\ pc = "loop"
    /\ pos < Len(files)
    /\ \E res \in SolveResults[files[pos + 1], gp] :
         /\ rows' = rows \o TryRow(files[pos + 1], res)
         /\ trace' = Append(trace, [msg |-> res.msg] @@ res.stages)
    /\ pos' = pos + 1
    /\ UNCHANGED <<tokens, parsed, inst, gp, model, sol, sched, files, csv, md, pc>>

\* The loop is over; the CSV file is written (lines 209-214).
WriteCsv ==
    /\ pc = "loop"
    /\ pos = Len(files)
    /\ csv' = <<fieldnames>> \o [n \in 1..Len(rows) |-> CsvLine(rows[n])]
    /\ pc' = "md"
    /\ UNCHANGED <<tokens, parsed, inst, gp, model, sol, sched, files, pos, rows, trace, md>>

\* The Markdown file is written (lines 217-230).
WriteMd ==
    /\ pc = "md"
    /\ md' = MdHeader \o [n \in 1..Len(rows) |-> MdLine(rows[n])]
    /\ pc' = "done"
    /\ UNCHANGED <<tokens, parsed, inst, gp, model, sol, sched, files, pos, rows, trace, csv>>

NextBatch == LoopIter \/ WriteCsv \/ WriteMd

SpecBatch == InitBatch /\ [][NextBatch]_vars

\* -------------------------------------------------------------- batch claims

\* Parsing, building or solving raised for the n-th path.
StageRaised(n) ==
    \/ trace[n].parse # ""
    \/ trace[n].build \notin {"", "-"}
    \/ trace[n].solve \notin {"", "-"}

IsErrorRow(r) == "error" \in DOMAIN r

\* C1: the batch loop appends exactly one row per path, in the order of the
\* input list and labelled with the path's basename; a path for which
\* parsing, building or solving raised gets an error row with that label and
\* the failure message, every other path a full row; the reports are written
\* only after every path was processed.
C1_OneRowPerPathInOrder ==
    /\ Len(rows) = pos
    /\ Len(trace) = pos
    /\ pos <= Len(files)
    /\ pc \in {"md", "done"} => pos = Len(files)
    /\ \A n \in 1..Len(rows) :
         /\ rows[n].instance = basename(files[n])
         /\ IF StageRaised(n)
            THEN DOMAIN rows[n] = {"instance", "error"} /\ rows[n].error = trace[n].msg
            ELSE DOMAIN rows[n] = Range(fieldnames)

\* The run ended on a list of two paths whose first file was malformed (the
\* parser raised) and whose second was solved: an error row, then a full row.
C1_Witness ==
    /\ pc = "done"
    /\ Len(files) = 2
    /\ trace[1].parse # "" /\ IsErrorRow(rows[1])
    /\ ~StageRaised(2) /\ ~IsErrorRow(rows[2])

\* C5: in the CSV and in the Markdown table the record of a failed instance
\* carries the instance label and the error message (the CSV in an explicit
\* error field), and no numeric field.
C5_ErrorRowsCarryMessage ==
    pc = "done" =>
      \A n \in 1..Len(rows) :
        IsErrorRow(rows[n]) =>
          /\ csv[n + 1][1] = rows[n].instance
          /\ \E k \in 1..Len(csv[1]) :
               csv[1][k] = "error" /\ csv[n + 1][k] = rows[n].error
          /\ \A k \in 2..Len(fieldnames) : csv[n + 1][k] = ""
          /\ md[n + 2][1] = rows[n].instance
          /\ \E k \in 2..Len(md[n + 2]) : md[n + 2][k] = "ERROR: " \o rows[n].error
          /\ \A k \in 2..Len(md[n + 2]) :
               md[n + 2][k] \in {"-", "ERROR: " \o rows[n].error}

\* C10: build_model returns a model only for a parsed Instance in which
\* every operation has a machine, every job an operation and every eligible
\* machine lies in [0, n_machs); for a parsed Instance breaking one of these
\* it raises, and the batch loop records an error row for that path and for
\* no path whose stages all succeeded.
C10_BuildRejectsIllFormed ==
    \A n \in 1..Len(trace) :
      /\ trace[n].parse = "" =>
           LET bad == trace[n].emptyAlts \/ trace[n].emptyJob \/ trace[n].badMachine IN
           /\ trace[n].build = "" => ~bad
           /\ bad => /\ trace[n].build \notin {"", "-"}
                     /\ n <= Len(rows)
                     /\ IsErrorRow(rows[n])
                     /\ rows[n].instance = basename(files[n])
      /\ (n <= Len(rows) /\ ~StageRaised(n)) => ~IsErrorRow(rows[n])

\* With the solver available, the first file parsed into an Instance with an
\* eligible machine outside range(n_machs) and got an error row from
\* build_model, and the second file was then solved.
C10_Witness ==
    /\ gp
    /\ Len(trace) = 2 /\ Len(rows) = 2
    /\ trace[1].parse = "" /\ trace[1].badMachine
    /\ ~trace[1].emptyAlts /\ ~trace[1].emptyJob
    /\ trace[1].build = "KeyError" /\ IsErrorRow(rows[1])
    /\ ~StageRaised(2) /\ ~IsErrorRow(rows[2])

====
